---- MODULE Spec2Model ----
(***************************************************************************)
(* Model of changeset-component-viewer (src/src/main.rs): the pipeline     *)
(* parse_package_xml -> flatten_components -> output_table / output_csv /  *)
(* output_tsv -> main's handling of the formatter's result.                *)
(*                                                                         *)
(* Strings are sequences of Unicode codepoints, so that String::cmp,       *)
(* str::split_once and the delimited-text encoding are computed as the     *)
(* code computes them.                                                     *)
(***************************************************************************)
EXTENDS Integers, Sequences, FiniteSets, TLC

VARIABLES args, package, rows, pc, idx, wtr_buf, table, written, sink, out_buf, pipe, result,
          stderr, exit_code, log

vars == <<args, package, rows, pc, idx, wtr_buf, table, written, sink, out_buf, pipe, result,
          stderr, exit_code, log>>

(***************************************************************************)
(* Bounds of the model.                                                    *)
(***************************************************************************)
\* longest member string of the single-member packages of Spec
MaxLen == 4
\* most <types> groups and most <members> in all of a parsed package (SpecSort)
MaxGroups == 2
MaxRows == 3

(***************************************************************************)
(* Characters and string literals (codepoints).                            *)
(***************************************************************************)
DOT == 46
HYPHEN == 45
\* the alphabet of the member strings: '-', '.' and 'a'
Chars == {HYPHEN, DOT, 97}

RECURSIVE StringsOfLen(_)
StringsOfLen(n) ==
    IF n = 0 THEN {<<>>}
    ELSE {<<c>> \o s : c \in Chars, s \in StringsOfLen(n - 1)}

Strings == UNION {StringsOfLen(n) : n \in 0..MaxLen}

AssignmentRule == <<65,115,115,105,103,110,109,101,110,116,82,117,108,101>>
CustomField == <<67,117,115,116,111,109,70,105,101,108,100>>
ListView == <<76,105,115,116,86,105,101,119>>
RecordType == <<82,101,99,111,114,100,84,121,112,101>>
SharingCriteriaRule ==
    <<83,104,97,114,105,110,103,67,114,105,116,101,114,105,97,82,117,108,101>>
SharingOwnerRule == <<83,104,97,114,105,110,103,79,119,110,101,114,82,117,108,101>>
SharingTerritoryRule ==
    <<83,104,97,114,105,110,103,84,101,114,114,105,116,111,114,121,82,117,108,101>>
Layout == <<76,97,121,111,117,116>>
ApexClass == <<65,112,101,120,67,108,97,115,115>>
CustomObject == <<67,117,115,116,111,109,79,98,106,101,99,116>>

\* const SPLITTABLE_BY_DOT
SPLITTABLE_BY_DOT ==
    {AssignmentRule, CustomField, ListView, RecordType, SharingCriteriaRule,
     SharingOwnerRule, SharingTerritoryRule}

\* const SPLITTABLE_BY_HYPHEN
SPLITTABLE_BY_HYPHEN == {Layout}

\* the type names the inputs are drawn from: every splittable type and two
\* types without a split rule
TypeNames == SPLITTABLE_BY_DOT \cup SPLITTABLE_BY_HYPHEN \cup {ApexClass, CustomObject}

(***************************************************************************)
(* Command line (struct Cli, enum OutputFormat, enum SortOrder).           *)
(***************************************************************************)
OutputFormat == {"Table", "Csv", "Tsv"}
SortOrder == {"ByType", "AsIs"}
Cli == [format : OutputFormat, sort : SortOrder, no_split_parent : BOOLEAN]

(***************************************************************************)
(* String primitives of the standard library, as the code uses them.       *)
(***************************************************************************)
\* <str as Ord>::cmp: lexicographic by codepoint; -1 Less, 0 Equal, 1 Greater
RECURSIVE StrCmp(_, _)
StrCmp(a, b) ==
    IF a = <<>> /\ b = <<>> THEN 0
    ELSE IF a = <<>> THEN -1
    ELSE IF b = <<>> THEN 1
    ELSE IF Head(a) < Head(b) THEN -1
    ELSE IF Head(a) > Head(b) THEN 1
    ELSE StrCmp(Tail(a), Tail(b))

\* index of the first occurrence of c in s, 0 when there is none
RECURSIVE FindFrom(_, _, _)
FindFrom(s, c, k) ==
    IF k > Len(s) THEN 0
    ELSE IF s[k] = c THEN k
    ELSE FindFrom(s, c, k + 1)

\* the variant that looks for the LAST occurrence (rsplit_once)
RECURSIVE FindLastFrom(_, _, _)
FindLastFrom(s, c, k) ==
    IF k < 1 THEN 0
    ELSE IF s[k] = c THEN k
    ELSE FindLastFrom(s, c, k - 1)

split_once_last(s, c) ==
    LET k == FindLastFrom(s, c, Len(s))
    IN  IF k = 0 THEN [some |-> FALSE, p |-> <<>>, rest |-> <<>>]
        ELSE [some |-> TRUE, p |-> SubSeq(s, 1, k - 1), rest |-> SubSeq(s, k + 1, Len(s))]

\* str::split_once(c): Some((before, after)) around the first c, or None
split_once(s, c) ==
    LET k == FindFrom(s, c, 1)
    IN  IF k = 0 THEN [some |-> FALSE, p |-> <<>>, rest |-> <<>>]
        ELSE [some |-> TRUE, p |-> SubSeq(s, 1, k - 1), rest |-> SubSeq(s, k + 1, Len(s))]

(***************************************************************************)
(* flatten_components                                                      *)
(***************************************************************************)
\* a variant that consults the split tables even when split_parent is false
SplitMemberAlways(name, m, split_parent) ==
    IF name \in SPLITTABLE_BY_DOT THEN
        LET r == split_once(m, DOT)
        IN  IF r.some THEN <<r.p, r.rest>> ELSE <<<<>>, m>>
    ELSE IF name \in SPLITTABLE_BY_HYPHEN THEN
        LET r == split_once(m, HYPHEN)
        IN  IF r.some THEN <<r.p, r.rest>> ELSE <<<<>>, m>>
    ELSE <<<<>>, m>>

\* a variant that keeps the whole string as member when it starts with the
\* separator
SplitMemberKeepLeading(name, m, split_parent) ==
    LET sep == IF name \in SPLITTABLE_BY_DOT THEN DOT ELSE HYPHEN
        r == split_once(m, sep)
    IN  IF split_parent /\ name \in (SPLITTABLE_BY_DOT \cup SPLITTABLE_BY_HYPHEN)
           /\ r.some /\ r.p # <<>>
        THEN <<r.p, r.rest>>
        ELSE <<<<>>, m>>

\* a variant that splits on the last separator
SplitMemberLast(name, m, split_parent) ==
    IF split_parent /\ name \in SPLITTABLE_BY_DOT THEN
        LET r == split_once_last(m, DOT)
        IN  IF r.some THEN <<r.p, r.rest>> ELSE <<<<>>, m>>
    ELSE IF split_parent /\ name \in SPLITTABLE_BY_HYPHEN THEN
        LET r == split_once_last(m, HYPHEN)
        IN  IF r.some THEN <<r.p, r.rest>> ELSE <<<<>>, m>>
    ELSE <<<<>>, m>>

\* the (parent, member) pair of one member string m of a group called name
SplitMember(name, m, split_parent) ==
    IF split_parent /\ name \in SPLITTABLE_BY_DOT THEN
        LET r == split_once(m, DOT)
        IN  IF r.some THEN <<r.p, r.rest>> ELSE <<<<>>, m>>
    ELSE IF split_parent /\ name \in SPLITTABLE_BY_HYPHEN THEN
        LET r == split_once(m, HYPHEN)
        IN  IF r.some THEN <<r.p, r.rest>> ELSE <<<<>>, m>>
    ELSE <<<<>>, m>>

\* ComponentRow { metadata_type, parent, member }
ComponentRow(name, m, split_parent) ==
    LET pm == SplitMember(name, m, split_parent)
    IN  [metadata_type |-> name, parent |-> pm[1], member |-> pm[2]]

\* t.members.iter().map(..): the rows of one group, in the members' order
RECURSIVE MapMembers(_, _, _)
MapMembers(name, members, split_parent) ==
    IF members = <<>> THEN <<>>
    ELSE <<ComponentRow(name, Head(members), split_parent)>>
         \o MapMembers(name, Tail(members), split_parent)

\* package.types.iter().flat_map(..).collect()
RECURSIVE FlatMapTypes(_, _)
FlatMapTypes(types, split_parent) ==
    IF types = <<>> THEN <<>>
    ELSE MapMembers(Head(types).name, Head(types).members, split_parent)
         \o FlatMapTypes(Tail(types), split_parent)

\* a comparator that leaves the parent out
RowCmpNoParent(a, b) ==
    LET t == StrCmp(a.metadata_type, b.metadata_type)
    IN  IF t # 0 THEN t ELSE StrCmp(a.member, b.member)

\* the comparator of rows.sort_by: metadata_type, then parent, then member
RowCmp(a, b) ==
    LET t == StrCmp(a.metadata_type, b.metadata_type)
        p == StrCmp(a.parent, b.parent)
    IN  IF t # 0 THEN t
        ELSE IF p # 0 THEN p
        ELSE StrCmp(a.member, b.member)

\* insert r after the last element that is not greater than it (stable)
RECURSIVE InsertSorted(_, _)
InsertSorted(r, s) ==
    IF s = <<>> THEN <<r>>
    ELSE IF RowCmp(r, Head(s)) < 0 THEN <<r>> \o s
    ELSE <<Head(s)>> \o InsertSorted(r, Tail(s))

\* slice::sort_by: a stable sort under RowCmp
RECURSIVE SortBy(_)
SortBy(s) ==
    IF s = <<>> THEN <<>>
    ELSE InsertSorted(s[Len(s)], SortBy(SubSeq(s, 1, Len(s) - 1)))

\* a variant that sorts under every sort order
flatten_components_always_sorted(pkg, sort_order, split_parent) ==
    SortBy(FlatMapTypes(pkg, split_parent))

flatten_components(pkg, sort_order, split_parent) ==
    LET collected == FlatMapTypes(pkg, split_parent)
    IN  IF sort_order = "ByType" THEN SortBy(collected) ELSE collected

(***************************************************************************)
(* Initial states.                                                         *)
(***************************************************************************)
Types(name, members) == [name |-> name, members |-> members]

\* Result<(), Box<dyn Error>>: dyn is the concrete type inside the box
NoResult == [tag |-> "None", dyn |-> "", kind |-> ""]
Ok == [tag |-> "Ok", dyn |-> "", kind |-> ""]
Err(dyn, kind) == [tag |-> "Err", dyn |-> dyn, kind |-> kind]

Idle ==
    /\ rows = <<>>
    /\ idx = 0
    /\ wtr_buf = <<>>
    /\ table = <<>>
    /\ written = <<>>
    /\ sink = <<>>
    /\ out_buf = <<>>
    /\ result = NoResult
    /\ stderr = <<>>
    /\ exit_code = -1
    /\ log = <<>>

\* a package of one group with one member: every type name, every string
Init ==
    /\ args \in {a \in Cli : a.format = "Table"}
    /\ package \in {<<Types(n, <<s>>)>> : n \in TypeNames, s \in Strings}
    /\ pc = "parse"
    /\ pipe = "open"
    /\ Idle

\* main, line 180: rows = flatten_components(&package, &args.sort, !args.no_split_parent)
Flatten ==
    /\ pc = "parse"
    /\ rows' = flatten_components(package, args.sort, ~args.no_split_parent)
    /\ pc' = "output"
    /\ UNCHANGED <<args, package, idx, wtr_buf, table, written, sink, out_buf, pipe, result, stderr,
                   exit_code, log>>

Next == Flatten

Spec == Init /\ [][Next]_vars

(***************************************************************************)
(* SpecSort: packages of several groups and members, as parse_package_xml  *)
(* builds them from the document, group by group and member by member.     *)
(***************************************************************************)
SortNames == {ApexClass, CustomField, Layout}
\* "a", "a.a", "a-a"
SortStrings == {<<97>>, <<97, DOT, 97>>, <<97, HYPHEN, 97>>}

RECURSIVE TotalMembers(_)
TotalMembers(types) ==
    IF types = <<>> THEN 0 ELSE Len(Head(types).members) + TotalMembers(Tail(types))

InitSort ==
    /\ args \in {a \in Cli : a.format = "Table"}
    /\ package = <<>>
    /\ pc = "parse"
    /\ pipe = "open"
    /\ Idle

\* a <types> element: a new group, after the groups read so far
ParseTypes ==
    /\ pc = "parse"
    /\ Len(package) < MaxGroups
    /\ \E n \in SortNames : package' = Append(package, Types(n, <<>>))
    /\ UNCHANGED <<args, rows, pc, idx, wtr_buf, table, written, sink, out_buf, pipe, result, stderr,
                   exit_code, log>>

\* a <members> element: a new member, after the members of the group being read
ParseMembers ==
    /\ pc = "parse"
    /\ package # <<>>
    /\ TotalMembers(package) < MaxRows
    /\ \E s \in SortStrings :
          package' = [package EXCEPT ![Len(package)].members = Append(@, s)]
    /\ UNCHANGED <<args, rows, pc, idx, wtr_buf, table, written, sink, out_buf, pipe, result, stderr,
                   exit_code, log>>

NextSort == ParseTypes \/ ParseMembers \/ Flatten

SpecSort == InitSort /\ [][NextSort]_vars

(***************************************************************************)
(* The whole run: Cli::parse, parse_package_xml, flatten_components, the   *)
(* formatters and main's handling of their result.                         *)
(*                                                                         *)
(* What goes to standard output is bytes: text is encoded as UTF-8.        *)
(* pipe is the state of standard output: "open"; "broken", a pipe whose    *)
(* reader is gone for good, and then every write fails with                *)
(* ErrorKind::BrokenPipe; "closed" when the process was started without    *)
(* standard output, and then the standard library reports every write as   *)
(* done and delivers nothing.  sink is what the consumer of standard       *)
(* output has received, written what was reported as passed on.  A write   *)
(* to an open standard output succeeds, or fails with BrokenPipe or with   *)
(* another ErrorKind after any number of bytes went through.               *)
(* out_buf is the buffer of io::stdout(), a LineWriter: it passes on       *)
(* completed lines and holds back the rest, it keeps what a failed write   *)
(* of its buffer did not deliver, and the runtime writes it out when the   *)
(* process ends.  wtr_buf is the buffer of csv::Writer: write_record fills *)
(* it and writes it out when it is full; flush and the writer's Drop write *)
(* it out.  table is what writeln! formats in output_table, in bytes: the  *)
(* Display of the table and the line break.  log records the operations on *)
(* standard output, with the index of the row loop and the length of       *)
(* written after the operation.                                            *)
(***************************************************************************)
\* capacity of the csv::Writer buffer in bytes, as the crate sets it
CsvCapacity == 8192
\* capacity of the buffer of io::stdout() in bytes, as the library sets it
StdoutCap == 1024
\* capacity of the csv::Writer buffer in the model, scaled down, in bytes
BufCap == 32
\* the capacity of the buffer of io::stdout() that the chunks of csv::Writer
\* meet, scaled down as BufCap is
CsvStdoutCap == StdoutCap \div (CsvCapacity \div BufCap)

COMMA == 44
TAB == 9
NEWLINE == 10
QUOTE == 34
SPACE == 32
VBAR == 9474

\* the column labels: #[tabled(rename = ..)] and the header records
Type == <<84,121,112,101>>
Parent == <<80,97,114,101,110,116>>
Member == <<77,101,109,98,101,114>>

\* a header whose Parent column depends on the split toggle
HeaderBySplit ==
    IF args.no_split_parent THEN <<Type, Member>> ELSE <<Type, Parent, Member>>

Header == <<Type, Parent, Member>>

\* the fields of a data record: [&row.metadata_type, &row.parent, &row.member]
Fields(row) == <<row.metadata_type, row.parent, row.member>>

Delimiter(format) == IF format = "Tsv" THEN TAB ELSE COMMA

\* csv: a field is quoted when it holds the delimiter, a quote or a line break
NeedsQuotes(f, delim) ==
    \E k \in 1..Len(f) : f[k] \in {delim, QUOTE, NEWLINE, 13}

RECURSIVE Concat(_)
Concat(ss) == IF ss = <<>> THEN <<>> ELSE Head(ss) \o Concat(Tail(ss))

\* csv: quotes inside a quoted field are doubled.  The field comes as the
\* sequence of what the writer copies into its buffer whole: single bytes,
\* and the two quotes of a doubled quote
EscapeQuotes(f) ==
    [k \in 1..Len(f) |-> IF f[k] = QUOTE THEN <<QUOTE, QUOTE>> ELSE <<f[k]>>]

FieldAtoms(f, delim) ==
    IF NeedsQuotes(f, delim) THEN <<<<QUOTE>>>> \o EscapeQuotes(f) \o <<<<QUOTE>>>>
    ELSE [k \in 1..Len(f) |-> <<f[k]>>]

EncodeField(f, delim) == Concat(FieldAtoms(f, delim))

RECURSIVE JoinFields(_, _)
JoinFields(fields, delim) ==
    IF fields = <<>> THEN <<>>
    ELSE IF Len(fields) = 1 THEN FieldAtoms(fields[1], delim)
    ELSE FieldAtoms(fields[1], delim) \o <<<<delim>>>> \o JoinFields(Tail(fields), delim)

\* one record as the writer copies it into its buffer: the fields,
\* delimited, and the terminator
RecordAtoms(fields, delim) == JoinFields(fields, delim) \o <<<<NEWLINE>>>>

\* the bytes of one record
EncodeRecord(fields, delim) == Concat(RecordAtoms(fields, delim))

\* Style::modern(): the corners and joints of the top, inner and bottom
\* border lines, and the horizontal line character
ModernStyle ==
    [top |-> <<9484, 9516, 9488>>, inner |-> <<9500, 9532, 9508>>,
     bottom |-> <<9492, 9524, 9496>>, horizontal |-> 9472]

Repeat(ch, n) == [k \in 1..n |-> ch]

Max(S) == CHOOSE x \in S : \A y \in S : y <= x

\* the lines of cells of Table::new(rows): the header, then the rows in order
TableRecords(rs) == <<Header>> \o [k \in 1..Len(rs) |-> Fields(rs[k])]

\* the width of every column: that of its widest cell
ColumnWidths(recs) ==
    [c \in 1..Max({Len(recs[k]) : k \in 1..Len(recs)}) |->
        Max({0} \cup {Len(recs[k][c]) : k \in {x \in 1..Len(recs) : c <= Len(recs[x])}})]

\* a line of cells: each cell left-aligned in its column's width, with one
\* space of padding on both sides, between vertical bars
RECURSIVE TableLine(_, _, _)
TableLine(fields, widths, c) ==
    IF c > Len(fields) THEN <<VBAR, NEWLINE>>
    ELSE <<VBAR, SPACE>> \o fields[c] \o Repeat(SPACE, widths[c] - Len(fields[c]))
         \o <<SPACE>> \o TableLine(fields, widths, c + 1)

\* a border line: ends[1], the horizontal line over every column with
\* ends[2] between columns, ends[3]
RECURSIVE BorderLine(_, _, _)
BorderLine(ends, widths, c) ==
    IF c > Len(widths) THEN <<ends[3], NEWLINE>>
    ELSE <<IF c = 1 THEN ends[1] ELSE ends[2]>>
         \o Repeat(ModernStyle.horizontal, widths[c] + 2)
         \o BorderLine(ends, widths, c + 1)

\* the lines of cells from the k-th on, an inner border line between them
RECURSIVE TableLines(_, _, _)
TableLines(recs, widths, k) ==
    IF k > Len(recs) THEN <<>>
    ELSE (IF k > 1 THEN BorderLine(ModernStyle.inner, widths, 1) ELSE <<>>)
         \o TableLine(recs[k], widths, 1)
         \o TableLines(recs, widths, k + 1)

\* Table::new(rows) with Style::modern(), as writeln! writes it: the top
\* border, the header, the rows, the bottom border, every line ended by a
\* line break
RenderTable(rs) ==
    LET recs == TableRecords(rs)
        widths == ColumnWidths(recs)
    IN  BorderLine(ModernStyle.top, widths, 1)
        \o TableLines(recs, widths, 1)
        \o BorderLine(ModernStyle.bottom, widths, 1)

\* str::as_bytes: the UTF-8 encoding of a character
Utf8Char(c) ==
    IF c < 128 THEN <<c>>
    ELSE IF c < 2048 THEN <<192 + (c \div 64), 128 + (c % 64)>>
    ELSE IF c < 65536
    THEN <<224 + (c \div 4096), 128 + ((c \div 64) % 64), 128 + (c % 64)>>
    ELSE <<240 + (c \div 262144), 128 + ((c \div 4096) % 64),
           128 + ((c \div 64) % 64), 128 + (c % 64)>>

\* str::as_bytes: the UTF-8 encoding of a text, the encodings of its
\* characters one after the other
Utf8(s) ==
    LET slot(i) == LET e == Utf8Char(s[(i + 3) \div 4])
                       j == ((i - 1) % 4) + 1
                   IN  IF j <= Len(e) THEN e[j] ELSE -1
    IN  SelectSeq([i \in 1..(4 * Len(s)) |-> slot(i)], LAMBDA b : b >= 0)

\* the fields of a record as bytes
Bytes(fields) == [k \in 1..Len(fields) |-> Utf8(fields[k])]

(***************************************************************************)
(* The texts of --help and --version, as clap derives them from Cli.  The  *)
(* name and the version of the package are those of the package manifest,  *)
(* as the program prints them for --version; the usage line of the help    *)
(* names the program as it was started.  The help text is styled:          *)
(* headings are bold and underlined, the names of the program and of the   *)
(* options are bold.  When standard output is a terminal or colour is      *)
(* forced the text is written with the escape sequences of its styles, in  *)
(* one piece; otherwise the sequences are stripped and the text is written *)
(* in the chunks between them.                                             *)
(***************************************************************************)
\* "parseh"
PackageName ==
     <<112, 97, 114, 115, 101, 104>>
\* "0.1.0"
PackageVersion ==
     <<48, 46, 49, 46, 48>>

HelpParts(name) ==
  <<
     \* Salesforce package.xml viewer - displays metadata components in readable formats\n\n
     [style |-> "plain", text |->
     <<83, 97, 108, 101, 115, 102, 111, 114, 99, 101, 32, 112, 97, 99,
       107, 97, 103, 101, 46, 120, 109, 108, 32, 118, 105, 101, 119,
       101, 114, 32, 45, 32, 100, 105, 115, 112, 108, 97, 121, 115, 32,
       109, 101, 116, 97, 100, 97, 116, 97, 32, 99, 111, 109, 112, 111,
       110, 101, 110, 116, 115, 32, 105, 110, 32, 114, 101, 97, 100, 97,
       98, 108, 101, 32, 102, 111, 114, 109, 97, 116, 115, 10, 10>>],
     \* Usage:
     [style |-> "header", text |->
     <<85, 115, 97, 103, 101, 58>>],
     \*  
     [style |-> "plain", text |->
     <<32>>],
     [style |-> "literal", text |-> name],
     \*  [OPTIONS] <PATH>\n\n
     [style |-> "plain", text |->
     <<32, 91, 79, 80, 84, 73, 79, 78, 83, 93, 32, 60, 80, 65, 84, 72,
       62, 10, 10>>],
     \* Arguments:
     [style |-> "header", text |->
     <<65, 114, 103, 117, 109, 101, 110, 116, 115, 58>>],
     \* \n  <PATH>  Path to the package.xml file\n\n
     [style |-> "plain", text |->
     <<10, 32, 32, 60, 80, 65, 84, 72, 62, 32, 32, 80, 97, 116, 104, 32,
       116, 111, 32, 116, 104, 101, 32, 112, 97, 99, 107, 97, 103, 101,
       46, 120, 109, 108, 32, 102, 105, 108, 101, 10, 10>>],
     \* Options:
     [style |-> "header", text |->
     <<79, 112, 116, 105, 111, 110, 115, 58>>],
     \* \n  
     [style |-> "plain", text |->
     <<10, 32, 32>>],
     \* -f
     [style |-> "literal", text |->
     <<45, 102>>],
     \* , 
     [style |-> "plain", text |->
     <<44, 32>>],
     \* --format
     [style |-> "literal", text |->
     <<45, 45, 102, 111, 114, 109, 97, 116>>],
     \*  <FORMAT>  Output format [default: table] [possible values: table, csv, tsv]\n  
     [style |-> "plain", text |->
     <<32, 60, 70, 79, 82, 77, 65, 84, 62, 32, 32, 79, 117, 116, 112,
       117, 116, 32, 102, 111, 114, 109, 97, 116, 32, 91, 100, 101, 102,
       97, 117, 108, 116, 58, 32, 116, 97, 98, 108, 101, 93, 32, 91,
       112, 111, 115, 115, 105, 98, 108, 101, 32, 118, 97, 108, 117,
       101, 115, 58, 32, 116, 97, 98, 108, 101, 44, 32, 99, 115, 118,
       44, 32, 116, 115, 118, 93, 10, 32, 32>>],
     \* -s
     [style |-> "literal", text |->
     <<45, 115>>],
     \* , 
     [style |-> "plain", text |->
     <<44, 32>>],
     \* --sort
     [style |-> "literal", text |->
     <<45, 45, 115, 111, 114, 116>>],
     \*  <SORT>      Sort order [default: by-type] [possible values: by-type, as-is]\n      
     [style |-> "plain", text |->
     <<32, 60, 83, 79, 82, 84, 62, 32, 32, 32, 32, 32, 32, 83, 111, 114,
       116, 32, 111, 114, 100, 101, 114, 32, 91, 100, 101, 102, 97, 117,
       108, 116, 58, 32, 98, 121, 45, 116, 121, 112, 101, 93, 32, 91,
       112, 111, 115, 115, 105, 98, 108, 101, 32, 118, 97, 108, 117,
       101, 115, 58, 32, 98, 121, 45, 116, 121, 112, 101, 44, 32, 97,
       115, 45, 105, 115, 93, 10, 32, 32, 32, 32, 32, 32>>],
     \* --no-split-parent
     [style |-> "literal", text |->
     <<45, 45, 110, 111, 45, 115, 112, 108, 105, 116, 45, 112, 97, 114,
       101, 110, 116>>],
     \*   Disable splitting Parent.Member format into separate columns\n  
     [style |-> "plain", text |->
     <<32, 32, 68, 105, 115, 97, 98, 108, 101, 32, 115, 112, 108, 105,
       116, 116, 105, 110, 103, 32, 80, 97, 114, 101, 110, 116, 46, 77,
       101, 109, 98, 101, 114, 32, 102, 111, 114, 109, 97, 116, 32, 105,
       110, 116, 111, 32, 115, 101, 112, 97, 114, 97, 116, 101, 32, 99,
       111, 108, 117, 109, 110, 115, 10, 32, 32>>],
     \* -h
     [style |-> "literal", text |->
     <<45, 104>>],
     \* , 
     [style |-> "plain", text |->
     <<44, 32>>],
     \* --help
     [style |-> "literal", text |->
     <<45, 45, 104, 101, 108, 112>>],
     \*              Print help\n  
     [style |-> "plain", text |->
     <<32, 32, 32, 32, 32, 32, 32, 32, 32, 32, 32, 32, 32, 80, 114, 105,
       110, 116, 32, 104, 101, 108, 112, 10, 32, 32>>],
     \* -V
     [style |-> "literal", text |->
     <<45, 86>>],
     \* , 
     [style |-> "plain", text |->
     <<44, 32>>],
     \* --version
     [style |-> "literal", text |->
     <<45, 45, 118, 101, 114, 115, 105, 111, 110>>],
     \*           Print version\n
     [style |-> "plain", text |->
     <<32, 32, 32, 32, 32, 32, 32, 32, 32, 32, 80, 114, 105, 110, 116,
       32, 118, 101, 114, 115, 105, 111, 110, 10>>]
  >>

\* the names the program is started under here: that of the package, and
\* "ccv"
ProgramNames == {PackageName, <<99, 99, 118>>}

\* the escape sequences ESC[1m, ESC[4m and ESC[0m
Bold == <<27, 91, 49, 109>>
Underline == <<27, 91, 52, 109>>
Reset == <<27, 91, 48, 109>>

\* a part of the help text with the escape sequences of its style
Styled(part) ==
    IF part.style = "header" THEN Bold \o Underline \o part.text \o Reset
    ELSE IF part.style = "literal" THEN Bold \o part.text \o Reset
    ELSE part.text

\* the help text of the program started as name, with or without the
\* escape sequences
HelpText(name, styled) ==
    LET parts == HelpParts(name)
    IN  Concat([k \in 1..Len(parts) |->
                   IF styled THEN Styled(parts[k]) ELSE parts[k].text])

\* the pieces in which the help text is written
HelpChunks(name, styled) ==
    LET parts == HelpParts(name)
    IN  IF styled THEN <<HelpText(name, TRUE)>>
        ELSE [k \in 1..Len(parts) |-> parts[k].text]

VersionText == PackageName \o <<SPACE>> \o PackageVersion \o <<NEWLINE>>

(***************************************************************************)
(* Standard output.                                                        *)
(***************************************************************************)
\* what handing bytes to the descriptor of standard output can do: the
\* outcome o, the number n of bytes that went through, and the state p of
\* standard output afterwards.  After a BrokenPipe the reader of a pipe is
\* gone for good; a named pipe can get a reader again.
Attempts(bytes) ==
    IF bytes = <<>> \/ pipe = "closed" THEN {[o |-> "Ok", n |-> Len(bytes), p |-> pipe]}
    ELSE IF pipe = "broken" THEN {[o |-> "BrokenPipe", n |-> 0, p |-> pipe]}
    ELSE {[o |-> "Ok", n |-> Len(bytes), p |-> pipe]}
         \cup {[o |-> "Other", n |-> n, p |-> pipe] : n \in 0..(Len(bytes) - 1)}
         \cup {[o |-> "BrokenPipe", n |-> n, p |-> p] :
                  n \in 0..(Len(bytes) - 1), p \in {"broken", "open"}}

\* the position of the last line break of bytes, 0 when there is none
LastBreak(bytes) == Max({0} \cup {k \in 1..Len(bytes) : bytes[k] = NEWLINE})

\* The operations below yield the set of their results: the outcome o, the
\* bytes out that went through, the buffer buf of standard output and its
\* state p afterwards.
Done(b) == {[o |-> "Ok", out |-> <<>>, buf |-> b, p |-> pipe]}

\* the results S of an operation that follows one which went well and put
\* the bytes out through
Follow(out, S) == {[s EXCEPT !.out = out \o s.out] : s \in S}

\* BufWriter::flush_buf: the buffer is handed to the descriptor; what a
\* failed write did not deliver stays in the buffer
FlushBuf(b) ==
    {[o |-> a.o, out |-> SubSeq(b, 1, a.n), buf |-> SubSeq(b, a.n + 1, Len(b)), p |-> a.p] :
        a \in Attempts(b)}

\* write_all on the descriptor, past the buffer b: what a failed write did
\* not deliver is dropped
WriteThrough(b, bytes) ==
    {[o |-> a.o, out |-> SubSeq(bytes, 1, a.n), buf |-> b, p |-> a.p] : a \in Attempts(bytes)}

\* BufWriter::write_all: bytes that fit are appended to the buffer;
\* otherwise the buffer is written out first when they exceed its spare
\* capacity, and they go to the descriptor directly when they are not
\* shorter than the capacity.  As with the ? operator, nothing follows a
\* failure.
BufWriteAll(b, bytes, cap) ==
    IF Len(bytes) < cap - Len(b) THEN Done(b \o bytes)
    ELSE UNION {IF r.o # "Ok" THEN {r}
                ELSE Follow(r.out, IF Len(bytes) >= cap THEN WriteThrough(r.buf, bytes)
                                   ELSE Done(r.buf \o bytes)) :
                   r \in IF Len(bytes) > cap - Len(b) THEN FlushBuf(b) ELSE Done(b)}

\* LineWriter: a completed line in the buffer is written out
FlushIfCompletedLine(b) ==
    IF b # <<>> /\ b[Len(b)] = NEWLINE THEN FlushBuf(b) ELSE Done(b)

\* LineWriter: the lines of a write go to the descriptor, directly when
\* the buffer is empty and through the buffer, which is then written out,
\* when it is not
WriteLines(b, lines, cap) ==
    IF b = <<>> THEN WriteThrough(b, lines)
    ELSE UNION {IF r.o # "Ok" THEN {r} ELSE Follow(r.out, FlushBuf(r.buf)) :
                   r \in BufWriteAll(b, lines, cap)}

\* io::stdout().write_all(bytes), LineWriter over a buffer of capacity cap
\* holding b.  Without a line break in bytes: a completed line in the
\* buffer is written out, and bytes go to the buffer.  Otherwise the lines
\* of bytes, up to the last line break, go to the descriptor, and the rest
\* of bytes goes to the buffer.
StdoutWriteAll(b, bytes, cap) ==
    LET k == LastBreak(bytes)
        lines == SubSeq(bytes, 1, k)
        tail == SubSeq(bytes, k + 1, Len(bytes))
    IN  IF k = 0
        THEN UNION {IF r.o # "Ok" THEN {r} ELSE Follow(r.out, BufWriteAll(r.buf, bytes, cap)) :
                       r \in FlushIfCompletedLine(b)}
        ELSE UNION {IF r.o # "Ok" THEN {r} ELSE Follow(r.out, BufWriteAll(r.buf, tail, cap)) :
                       r \in WriteLines(b, lines, cap)}

\* the pieces of a formatted text are written one after the other, up to the
\* first failure
RECURSIVE WritePieces(_, _, _)
WritePieces(b, pieces, cap) ==
    IF pieces = <<>> THEN Done(b)
    ELSE UNION {IF r.o # "Ok" THEN {r}
                ELSE Follow(r.out, WritePieces(r.buf, Tail(pieces), cap)) :
                   r \in StdoutWriteAll(b, Head(pieces), cap)}

\* the pieces of a text line by line: every line, and every line break
RECURSIVE LinePieces(_)
LinePieces(bytes) ==
    IF bytes = <<>> THEN <<>>
    ELSE LET k == FindFrom(bytes, NEWLINE, 1)
         IN  IF k = 0 THEN <<bytes>>
             ELSE <<SubSeq(bytes, 1, k - 1), <<NEWLINE>>>>
                  \o LinePieces(SubSeq(bytes, k + 1, Len(bytes)))

\* the pieces in which writeln!("{}", table) hands the table to the writer.
\* The line break at the end is the one of writeln! and a piece of its own;
\* before it, Table's Display writes the table in one piece or in pieces
\* that do not reach over a line break, which a LineWriter, its buffer
\* being longer than a line of the table, treats as it treats whole lines.
Pieces(bytes) ==
    {<<SubSeq(bytes, 1, Len(bytes) - 1), <<NEWLINE>>>>, LinePieces(bytes)}

\* the result r of an operation on standard output takes effect
Deliver(r) ==
    /\ written' = written \o r.out
    /\ sink' = IF pipe = "closed" THEN sink ELSE sink \o r.out
    /\ out_buf' = r.buf
    /\ pipe' = r.p

\* an entry of the log: the operation, its outcome, the index of the row
\* loop and the length of written' after it
Logged(op, outcome, out) ==
    Append(log, [op |-> op, outcome |-> outcome, idx |-> idx,
                 len |-> Len(written) + Len(out)])

\* the outcome of an operation whose error is dropped
Dropped(o) == IF o = "Ok" THEN "Ok" ELSE "Err"

(***************************************************************************)
(* csv::Writer.                                                            *)
(***************************************************************************)
\* the number of the atoms that fit into room bytes, from the first on
Fitting(atoms, room) ==
    Max({n \in 0..Len(atoms) : Len(Concat(SubSeq(atoms, 1, n))) <= room})

\* csv::Writer::write_record, atoms being what of the record is still to be
\* written, buf the writer's buffer and b the buffer of standard output:
\* the atoms are copied into the buffer as long as they fit; when one does
\* not fit, the buffer is written out with write_all and cleared, and the
\* copying goes on.  A failure of that write ends write_record, the buffer
\* is kept.  The results carry the writer's buffer wbuf.
RECURSIVE write_record(_, _, _)
write_record(buf, atoms, b) ==
    LET n == Fitting(atoms, BufCap - Len(buf))
        full == buf \o Concat(SubSeq(atoms, 1, n))
    IN  IF n = Len(atoms)
        THEN {[o |-> "Ok", out |-> <<>>, buf |-> b, p |-> pipe, wbuf |-> full]}
        ELSE UNION {IF r.o # "Ok"
                    THEN {[o |-> r.o, out |-> r.out, buf |-> r.buf, p |-> r.p, wbuf |-> full]}
                    ELSE {[s EXCEPT !.out = r.out \o s.out] :
                             s \in write_record(<<>>, SubSeq(atoms, n + 1, Len(atoms)), r.buf)} :
                       r \in StdoutWriteAll(b, full, CsvStdoutCap)}

\* csv::Writer::flush: the buffer is written out with write_all and cleared,
\* then standard output is flushed
flush(buf, b) ==
    UNION {IF r.o # "Ok"
           THEN {[o |-> r.o, out |-> r.out, buf |-> r.buf, p |-> r.p, wbuf |-> buf]}
           ELSE {[o |-> s.o, out |-> r.out \o s.out, buf |-> s.buf, p |-> s.p, wbuf |-> <<>>] :
                    s \in FlushBuf(r.buf)} :
              r \in StdoutWriteAll(b, buf, CsvStdoutCap)}

(***************************************************************************)
(* The steps of main.                                                      *)
(***************************************************************************)
\* the packages parse_package_xml yields here: a group without members, and
\* a group of a type that is split at the hyphen, with the members a-b and
\* b-,"
IOPackages ==
    {<<Types(ApexClass, <<>>)>>,
     <<Types(Layout, <<<<97, HYPHEN, 98>>, <<98, HYPHEN, COMMA, QUOTE>>>>)>>}

\* the command lines of the runs here: every format, the split toggle on
\* and off, the default sort order
IOArgs == {a \in Cli : a.sort = "ByType"}

\* args before Cli::parse has yielded them
NoArgs == [format |-> "None", sort |-> "None", no_split_parent |-> FALSE]

\* the process has started: nothing is parsed yet
InitIO ==
    /\ args = NoArgs
    /\ package = <<>>
    /\ pc = "start"
    /\ pipe \in {"open", "closed"}
    /\ Idle

\* the ways a process ends after which the runtime flushes standard output:
\* the return from main, std::process::exit, a panic that unwinds main
FlushingExits == {"return", "process::exit", "panic"}

\* the process ends with status code, by way of via: the runtime flushes
\* standard output, the error of the flush is dropped
ProcessExit(code, via) ==
    /\ pc' = "exited"
    /\ exit_code' = code
    /\ IF via \in FlushingExits
       THEN \E r \in FlushBuf(out_buf) :
               /\ Deliver(r)
               /\ log' = Logged("exit_flush", Dropped(r.o), r.out)
       ELSE UNCHANGED <<written, sink, out_buf, pipe, log>>

\* what standard error has received is a sequence of texts, each whole or
\* cut short (a part of it, and at least a byte)
Said(text) == [text |-> text, whole |-> TRUE]
CutShort(text) == [text |-> text, whole |-> FALSE]

\* the report of a panic that the runtime writes on standard error
PanicReport == "thread 'main' panicked: failed printing to stderr"

\* what eprintln! can meet: standard error takes the message; the process
\* was started without standard error, and the write is reported as done
\* with nothing delivered; a write fails
StderrOutcomes == {"taken", "closed", "failed"}

\* what standard error has received when a write of eprintln!(message)
\* failed: a part of the message or nothing of it, and then the report of
\* the panic, whole or cut short, or nothing of it, as the writes of the
\* report, whose errors are dropped, pass or fail
AfterFailedEprintln(message) ==
    {part \o report :
        part \in {<<>>, <<CutShort(message)>>},
        report \in {<<>>, <<CutShort(PanicReport)>>, <<Said(PanicReport)>>}}

\* eprintln!(message), then exit(code): the process ends with status code
\* after the message went to standard error; when a write to standard error
\* fails, eprintln! panics and the process ends with status 101
EprintlnAndExit(message, code) ==
    \E e \in StderrOutcomes :
        IF e = "failed"
        THEN /\ \E said \in AfterFailedEprintln(message) : stderr' = stderr \o said
             /\ ProcessExit(101, "panic")
        ELSE /\ stderr' = IF e = "taken" THEN Append(stderr, Said(message)) ELSE stderr
             /\ ProcessExit(code, "process::exit")

\* let args = Cli::parse(), the command line being well-formed
CliParse ==
    /\ pc = "start"
    /\ args' \in IOArgs
    /\ pc' = "read"
    /\ UNCHANGED <<package, rows, idx, wtr_buf, table, written, sink, out_buf, pipe, result,
                   stderr, exit_code, log>>

\* Cli::parse() on an ill-formed command line: a usage message on standard
\* error, the error of printing it is dropped, and exit status 2
CliError ==
    /\ pc = "start"
    /\ \E said \in {<<>>, <<CutShort("error: usage")>>, <<Said("error: usage")>>} :
          stderr' = stderr \o said
    /\ ProcessExit(2, "process::exit")
    /\ UNCHANGED <<args, package, rows, idx, wtr_buf, table, result>>

\* Cli::parse() on --help or --version: the text is printed on standard
\* output chunk by chunk, the error of the print is dropped; the process
\* then ends with status 0
CliDisplay(chunks) ==
    /\ pc = "start"
    /\ \E r \in WritePieces(out_buf, Bytes(chunks), StdoutCap) :
          /\ Deliver(r)
          /\ log' = Logged("print", Dropped(r.o), r.out)
    /\ pc' = "displayed"
    /\ UNCHANGED <<args, package, rows, idx, wtr_buf, table, result, stderr, exit_code>>

CliHelp ==
    \E name \in ProgramNames, styled \in BOOLEAN : CliDisplay(HelpChunks(name, styled))

CliVersion == CliDisplay(<<VersionText>>)

\* clap's exit after the print: it flushes standard output, dropping the
\* error, and calls std::process::exit(0), which flushes it again; the two
\* flushes in a row leave what one of them can leave
DisplayExit ==
    /\ pc = "displayed"
    /\ ProcessExit(0, "process::exit")
    /\ UNCHANGED <<args, package, rows, idx, wtr_buf, table, result, stderr>>

\* parse_package_xml(&args.path) returns Ok(package)
ParsePackage ==
    /\ pc = "read"
    /\ package' \in IOPackages
    /\ pc' = "parse"
    /\ UNCHANGED <<args, rows, idx, wtr_buf, table, written, sink, out_buf, pipe, result,
                   stderr, exit_code, log>>

\* parse_package_xml returns Err (file not readable, document ill-formed):
\* eprintln!("Error: Failed to parse {}: {}", ..); exit(1)
ParseError ==
    /\ pc = "read"
    /\ EprintlnAndExit("Error: Failed to parse", 1)
    /\ UNCHANGED <<args, package, rows, idx, wtr_buf, table, result>>

\* output_table: writeln!(io::stdout(), "{}", table)?
OutputTable ==
    /\ pc = "output"
    /\ args.format = "Table"
    /\ table' = Utf8(RenderTable(rows))
    /\ \E ps \in Pieces(table') :
       \E r \in WritePieces(out_buf, ps, StdoutCap) :
          /\ Deliver(r)
          /\ result' = IF r.o = "Ok" THEN Ok ELSE Err("io::Error", r.o)
          /\ log' = Logged("writeln", r.o, r.out)
    /\ pc' = "main"
    /\ UNCHANGED <<args, package, rows, idx, wtr_buf, stderr, exit_code>>

\* one wtr.write_record(fields)? of output_csv / output_tsv; next is the
\* position after it.  The error is a csv::Error that wraps the io::Error.
WriteRecordStep(fields, next, nextIdx) ==
    LET atoms == RecordAtoms(Bytes(fields), Delimiter(args.format))
        enc == Concat(atoms)
    IN  \E w \in write_record(wtr_buf, atoms, out_buf) :
            /\ wtr_buf' = w.wbuf
            /\ Deliver(w)
            /\ log' = IF Len(wtr_buf) + Len(enc) > BufCap
                      THEN Logged("write_record", w.o, w.out)
                      ELSE log
            /\ IF w.o # "Ok"
               THEN result' = Err("csv::Error", w.o) /\ pc' = "drop" /\ idx' = idx
               ELSE result' = result /\ pc' = next /\ idx' = nextIdx

\* a header written only when there are rows
CsvWriteHeaderIfRows ==
    /\ pc = "output"
    /\ args.format \in {"Csv", "Tsv"}
    /\ IF rows = <<>>
       THEN pc' = "records"
            /\ UNCHANGED <<wtr_buf, written, sink, out_buf, pipe, log, result, idx>>
       ELSE WriteRecordStep(Header, "records", 0)
    /\ UNCHANGED <<args, package, rows, table, stderr, exit_code>>

\* wtr.write_record(["Type", "Parent", "Member"])?
CsvWriteHeader ==
    /\ pc = "output"
    /\ args.format \in {"Csv", "Tsv"}
    /\ WriteRecordStep(Header, "records", 0)
    /\ UNCHANGED <<args, package, rows, table, stderr, exit_code>>

\* for row in rows { wtr.write_record([..])? }
CsvWriteRow ==
    /\ pc = "records"
    /\ idx < Len(rows)
    /\ WriteRecordStep(Fields(rows[idx + 1]), "records", idx + 1)
    /\ UNCHANGED <<args, package, rows, table, stderr, exit_code>>

\* returning Ok(()) after the loop without flushing
CsvFlushSkipped ==
    /\ pc = "records"
    /\ idx = Len(rows)
    /\ result' = Ok
    /\ pc' = "drop"
    /\ UNCHANGED <<args, package, rows, idx, wtr_buf, table, written, sink, out_buf, pipe,
                   stderr, exit_code, log>>

\* wtr.flush()?; Ok(()): a failure is the io::Error itself
CsvFlush ==
    /\ pc = "records"
    /\ idx = Len(rows)
    /\ \E f \in flush(wtr_buf, out_buf) :
          /\ wtr_buf' = f.wbuf
          /\ Deliver(f)
          /\ result' = IF f.o = "Ok" THEN Ok ELSE Err("io::Error", f.o)
          /\ log' = Logged("flush", f.o, f.out)
    /\ pc' = "drop"
    /\ UNCHANGED <<args, package, rows, idx, table, stderr, exit_code>>

\* wtr goes out of scope on every return of output_csv / output_tsv:
\* csv::Writer's Drop flushes once more and drops the error
WriterDrop ==
    /\ pc = "drop"
    /\ \E f \in flush(wtr_buf, out_buf) :
          /\ wtr_buf' = f.wbuf
          /\ Deliver(f)
          /\ log' = Logged("drop", Dropped(f.o), f.out)
    /\ pc' = "main"
    /\ UNCHANGED <<args, package, rows, idx, table, result, stderr, exit_code>>

\* a test that takes every io::Error for a broken pipe
IsBrokenPipeAnyKind(e) == e.dyn = "io::Error"

\* e.downcast_ref::<io::Error>() is Some(io_err) && io_err.kind() == BrokenPipe
IsBrokenPipe(e) == e.dyn = "io::Error" /\ e.kind = "BrokenPipe"

\* result is Ok: main falls off its end
MainOk ==
    /\ pc = "main"
    /\ result.tag = "Ok"
    /\ ProcessExit(0, "return")
    /\ UNCHANGED <<args, package, rows, idx, wtr_buf, table, result, stderr>>

\* if let Err(e) = result, and e is a broken pipe: return
MainBrokenPipe ==
    /\ pc = "main"
    /\ result.tag = "Err"
    /\ IsBrokenPipe(result)
    /\ ProcessExit(0, "return")
    /\ UNCHANGED <<args, package, rows, idx, wtr_buf, table, result, stderr>>

\* any other Err: eprintln!("Error writing output: {}", e); exit(1)
MainError ==
    /\ pc = "main"
    /\ result.tag = "Err"
    /\ ~IsBrokenPipe(result)
    /\ EprintlnAndExit("Error writing output", 1)
    /\ UNCHANGED <<args, package, rows, idx, wtr_buf, table, result>>

NextIO ==
    \/ CliParse
    \/ CliError
    \/ CliHelp
    \/ CliVersion
    \/ DisplayExit
    \/ ParsePackage
    \/ ParseError
    \/ Flatten
    \/ OutputTable
    \/ CsvWriteHeader
    \/ CsvWriteRow
    \/ CsvFlush
    \/ WriterDrop
    \/ MainOk
    \/ MainBrokenPipe
    \/ MainError

SpecIO == InitIO /\ [][NextIO]_vars

(***************************************************************************)
(* Properties of flatten_components.                                       *)
(***************************************************************************)
Contains(s, c) == \E k \in 1..Len(s) : s[k] = c

Occurrences(s, c) == Cardinality({k \in 1..Len(s) : s[k] = c})

\* the split policy as the specification states it
PolicyDot ==
    {AssignmentRule, CustomField, ListView, RecordType, SharingCriteriaRule,
     SharingOwnerRule, SharingTerritoryRule}
PolicyHyphen == {Layout}
HasPolicy(name) == name \in PolicyDot \cup PolicyHyphen
Separator(name) == IF name \in PolicyDot THEN DOT ELSE HYPHEN

split_enabled == ~args.no_split_parent

\* the states of Spec after flatten_components: one group, one member, one row
OneRow == pc = "output" /\ Len(package) = 1 /\ Len(package[1].members) = 1
TheName == package[1].name
TheMember == package[1].members[1]

\* C1: with split enabled, a member s of a type whose policy separator is c
\* gives parent = s before the first c and member = s after the first c when
\* s contains c (parent \o c \o member = s, and c is not in parent), and
\* parent empty and member = s when s does not contain c.
C1_SplitAtFirstSeparator ==
    (OneRow /\ split_enabled /\ HasPolicy(TheName)) =>
        LET c == Separator(TheName)
            s == TheMember
            r == rows[1]
        IN  /\ Len(rows) = 1
            /\ Contains(s, c) =>
                  /\ r.parent \o <<c>> \o r.member = s
                  /\ ~Contains(r.parent, c)
            /\ ~Contains(s, c) => (r.parent = <<>> /\ r.member = s)

C1_Witness ==
    /\ OneRow /\ split_enabled /\ TheName = Layout
    /\ Occurrences(TheMember, HYPHEN) >= 2
    /\ rows[1].parent # <<>>
    /\ Contains(rows[1].member, HYPHEN)

\* C2: with the split toggle disabled, or for a type without a policy entry,
\* the row has an empty parent and the member string unchanged, whichever
\* separators it contains.
C2_NoSplitIsIdentity ==
    (OneRow /\ (~split_enabled \/ ~HasPolicy(TheName))) =>
        /\ Len(rows) = 1
        /\ rows[1].metadata_type = TheName
        /\ rows[1].parent = <<>>
        /\ rows[1].member = TheMember

C2_Witness ==
    /\ OneRow /\ ~split_enabled /\ TheName = CustomField
    /\ Contains(TheMember, DOT) /\ Contains(TheMember, HYPHEN)
    /\ rows[1].member = TheMember

\* C10 as claimed: every row with an empty parent has the original member
\* string as its member.
C10_EmptyParentKeepsMember ==
    (OneRow /\ rows[1].parent = <<>>) => rows[1].member = TheMember

LeadingSeparator ==
    /\ split_enabled /\ HasPolicy(TheName)
    /\ TheMember # <<>> /\ TheMember[1] = Separator(TheName)

\* C10 amended: a row with an empty parent has the original member string as
\* its member, except when splitting applies to its type and the string
\* starts with the separator: then the member is the string without that
\* leading separator.
C10_EmptyParentAmended ==
    (OneRow /\ rows[1].parent = <<>>) =>
        IF LeadingSeparator THEN rows[1].member = Tail(TheMember)
        ELSE rows[1].member = TheMember

C10_Witness ==
    /\ OneRow /\ LeadingSeparator /\ Len(TheMember) >= 2
    /\ rows[1].parent = <<>>
    /\ rows[1].member = Tail(TheMember)

\* the rows of the package in document order, as the claims describe them
RowsBefore(g) == TotalMembers(SubSeq(package, 1, g - 1))

CountIn(r, s) == Cardinality({k \in 1..Len(s) : s[k] = r})

TupleLe(a, b) ==
    \/ StrCmp(a.metadata_type, b.metadata_type) < 0
    \/ /\ a.metadata_type = b.metadata_type
       /\ \/ StrCmp(a.parent, b.parent) < 0
          \/ a.parent = b.parent /\ StrCmp(a.member, b.member) <= 0

\* C3: under AsIs there is exactly one row per (group, member) pair, in
\* document order (groups in package order, members in listed order), each
\* with its group's name as type; no groups or no members gives no rows.
C3_AsIsDocumentOrder ==
    (pc = "output" /\ args.sort = "AsIs") =>
        /\ Len(rows) = TotalMembers(package)
        /\ \A g \in 1..Len(package) : \A j \in 1..Len(package[g].members) :
              LET r == rows[RowsBefore(g) + j]
                  pm == SplitMember(package[g].name, package[g].members[j], split_enabled)
              IN  /\ r.metadata_type = package[g].name
                  /\ r.parent = pm[1]
                  /\ r.member = pm[2]

C3_Witness ==
    /\ pc = "output" /\ args.sort = "AsIs"
    /\ Len(package) = 2
    /\ package[1].name = Layout /\ package[2].name = ApexClass
    /\ Len(package[1].members) = 2
    /\ package[1].members[1] # package[1].members[2]
    /\ Len(rows) = 3
    /\ rows[3].metadata_type = ApexClass

\* C4: under ByType the rows are a permutation of the AsIs rows (the same
\* multiset) and non-decreasing in (type, parent, member), parent and member
\* being the values after splitting, compared by codepoint.
C4_ByTypeSortedPermutation ==
    (pc = "output" /\ args.sort = "ByType") =>
        LET asis == FlatMapTypes(package, split_enabled)
        IN  /\ Len(rows) = Len(asis)
            /\ \A k \in 1..Len(asis) : CountIn(asis[k], rows) = CountIn(asis[k], asis)
            /\ \A k \in 1..(Len(rows) - 1) : TupleLe(rows[k], rows[k + 1])

C4_Witness ==
    /\ pc = "output" /\ args.sort = "ByType" /\ split_enabled
    /\ Len(rows) = 3
    /\ rows # FlatMapTypes(package, split_enabled)
    /\ rows[1].metadata_type = Layout /\ rows[2].metadata_type = Layout
    /\ rows[1].parent = <<>> /\ rows[2].parent # <<>>
    /\ StrCmp(rows[1].member, rows[2].member) > 0

(***************************************************************************)
(* Properties of the formatters and of main.                               *)
(***************************************************************************)
\* Readers of the text standard output has accepted.
\* the pieces of text between the positions in breaks, from position from on
RECURSIVE SplitAt(_, _, _)
SplitAt(text, breaks, from) ==
    LET ahead == {k \in breaks : k >= from}
    IN  IF ahead = {} THEN <<SubSeq(text, from, Len(text))>>
        ELSE LET k == CHOOSE x \in ahead : \A y \in ahead : x <= y
             IN  <<SubSeq(text, from, k - 1)>> \o SplitAt(text, breaks, k + 1)

\* the positions of c in text; with quoting, only those outside quoted
\* fields, that is, after an even number of quote characters
Positions(text, c, quoting) ==
    {k \in 1..Len(text) :
        /\ text[k] = c
        /\ quoting => Cardinality({j \in 1..(k - 1) : text[j] = QUOTE}) % 2 = 0}

\* the lines of text: a last piece without a line break counts when not empty
Lines(text, quoting) ==
    LET pieces == SplitAt(text, Positions(text, NEWLINE, quoting), 1)
    IN  IF pieces[Len(pieces)] = <<>> THEN SubSeq(pieces, 1, Len(pieces) - 1) ELSE pieces

RECURSIVE Undouble(_)
Undouble(f) ==
    IF f = <<>> THEN <<>>
    ELSE IF Len(f) >= 2 /\ f[1] = QUOTE /\ f[2] = QUOTE
         THEN <<QUOTE>> \o Undouble(SubSeq(f, 3, Len(f)))
    ELSE <<f[1]>> \o Undouble(Tail(f))

Unquote(f) ==
    IF f # <<>> /\ f[1] = QUOTE THEN Undouble(SubSeq(f, 2, Len(f) - 1)) ELSE f

\* a line of delimited text as its fields, quoted fields unquoted
CsvFields(line, delim) ==
    LET raw == SplitAt(line, Positions(line, delim, TRUE), 1)
    IN  [k \in 1..Len(raw) |-> Unquote(raw[k])]

\* a cell without the spaces around its value
Trimmed(cell) ==
    LET inked == {k \in 1..Len(cell) : cell[k] # SPACE}
    IN  IF inked = {} THEN <<>>
        ELSE SubSeq(cell, CHOOSE x \in inked : \A y \in inked : x <= y,
                          CHOOSE x \in inked : \A y \in inked : y <= x)

\* a line of the table as its cells: the pieces between the bars, trimmed
TableCells(line) ==
    LET raw == SplitAt(line, Positions(line, VBAR, FALSE), 1)
    IN  [k \in 1..(Len(raw) - 2) |-> Trimmed(raw[k + 1])]

\* the lines of the table that hold cells: those that start with a bar
CellLines(text) ==
    LET ls == Lines(text, FALSE)
    IN  SelectSeq(ls, LAMBDA l : l # <<>> /\ l[1] = VBAR)

\* the first byte of the encoding of a character
IsLead(b) == b < 128 \/ b >= 192

\* the character that the bytes bs encode
DecodeChar(bs) ==
    IF Len(bs) = 1 THEN bs[1]
    ELSE IF Len(bs) = 2 THEN (bs[1] - 192) * 64 + (bs[2] - 128)
    ELSE IF Len(bs) = 3
    THEN (bs[1] - 224) * 4096 + (bs[2] - 128) * 64 + (bs[3] - 128)
    ELSE (bs[1] - 240) * 262144 + (bs[2] - 128) * 4096 + (bs[3] - 128) * 64
         + (bs[4] - 128)

\* the text that the bytes bs encode, bs being whole characters
Decode(bs) ==
    LET at == SelectSeq([i \in 1..Len(bs) |-> i], LAMBDA i : IsLead(bs[i]))
    IN  [k \in 1..Len(at) |->
            DecodeChar(SubSeq(bs, at[k], IF k < Len(at) THEN at[k + 1] - 1 ELSE Len(bs)))]

\* the records standard output has passed on
Records ==
    IF args.format = "Table"
    THEN LET ls == CellLines(Decode(written)) IN [k \in 1..Len(ls) |-> TableCells(ls[k])]
    ELSE LET ls == Lines(Decode(written), TRUE)
         IN  [k \in 1..Len(ls) |-> CsvFields(ls[k], Delimiter(args.format))]

LineBreaks == Cardinality({k \in 1..Len(written) : written[k] = NEWLINE})

Delimited == args.format \in {"Csv", "Tsv"}

Succeeded == result.tag = "Ok"

\* C5: in CSV and TSV modes a successful formatter run has written exactly
\* one header record, first, then one data record per row in row order with
\* the fields type, parent, member (an empty parent as an empty field), each
\* record ended by a single newline; so also for no rows at all.
C5_HeaderThenOneRecordPerRow ==
    (Delimited /\ Succeeded) =>
        /\ Len(Records) = 1 + Len(rows)
        /\ Records[1] = <<Type, Parent, Member>>
        /\ \A k \in 1..Len(rows) :
              Records[k + 1] = <<rows[k].metadata_type, rows[k].parent, rows[k].member>>
        /\ written[Len(written)] = NEWLINE
        /\ LineBreaks = 1 + Len(rows)

C5_Witness ==
    /\ Delimited /\ Succeeded /\ pc = "exited"
    /\ package # <<>> /\ rows = <<>>
    /\ Records = <<<<Type, Parent, Member>>>>

\* C6 as claimed: the header has the fields Type, Parent, Member when the
\* split toggle is enabled and Type, Member when it is disabled, and every
\* data record has as many fields as the header.
C6_ParentColumnOnlyWhenSplitting ==
    Succeeded =>
        /\ Records[1] = IF split_enabled THEN <<Type, Parent, Member>> ELSE <<Type, Member>>
        /\ \A k \in 1..Len(Records) : Len(Records[k]) = Len(Records[1])

\* C6 amended: in every mode and whatever the split toggle, the header has
\* the 3 fields Type, Parent, Member and every data record has 3 fields; with
\* the split toggle disabled the Parent field of every data record is empty.
C6_ParentColumnAlways ==
    Succeeded =>
        /\ Records[1] = <<Type, Parent, Member>>
        /\ Len(Records) = 1 + Len(rows)
        /\ \A k \in 2..Len(Records) :
              /\ Len(Records[k]) = 3
              /\ ~split_enabled => Records[k][2] = <<>>

C6_Witness ==
    /\ Succeeded /\ pc = "exited" /\ ~split_enabled
    /\ args.format = "Table"
    /\ Len(rows) = 2
    /\ Len(Records[1]) = 3 /\ Records[3][2] = <<>>

\* the operations on standard output the formatter itself performs
FormatterOps == {"writeln", "write_record", "flush"}
FlushOps == {"flush", "drop", "exit_flush"}

\* C7: a broken-pipe failure of a formatter write, in any mode and at any
\* write, ends the process with status 0 and nothing on standard error.
C7_BrokenPipeIsSilentSuccess ==
    (pc = "exited" /\ result.tag = "Err" /\ result.kind = "BrokenPipe") =>
        (exit_code = 0 /\ stderr = <<>>)

\* the formatter operations that failed with an error other than BrokenPipe
FailedOther ==
    {k \in 1..Len(log) : log[k].op \in FormatterOps /\ log[k].outcome = "Other"}

\* C8 as claimed: a formatter write that fails with another kind of error is
\* the last of the formatter and is not retried: no formatter operation
\* follows it, the row loop stays where it was, nothing more of the text
\* goes to standard output afterwards; the error is the formatter's result,
\* and the process ends with status 1 and a message on standard error.
C8_OtherFailureIsFatalNoRetry ==
    \A k \in FailedOther :
        /\ \A j \in (k + 1)..Len(log) : log[j].op \notin FormatterOps
        /\ result.tag = "Err" /\ result.kind = "Other"
        /\ idx = log[k].idx
        /\ Len(written) = log[k].len
        /\ pc = "exited" => (exit_code = 1 /\ stderr = <<Said("Error writing output")>>)

\* C8 amended: a formatter write that fails with another kind of error is
\* the last operation of the formatter: no formatter operation follows it
\* and the row loop stays at the row it had reached (no later record is
\* encoded); the error is the formatter's result, and the process ends with
\* a failure status: 1 after the message was printed on standard error
\* (the message is lost when there is no standard error), or 101 when a
\* write to standard error fails, and then standard error has received at
\* most a part of the message and the report of the panic.  What the
\* buffers of csv::Writer and of standard output still hold is written once
\* more, by the writer's Drop and by the flush at exit, and nothing else
\* is: in table mode standard output has received a part of the table, the
\* whole table at most and only by the flush at exit.
C8_OtherFailureIsFatal ==
    \A k \in FailedOther :
        /\ \A j \in (k + 1)..Len(log) :
              /\ log[j].op \in {"drop", "exit_flush"}
              /\ log[j].idx = log[k].idx
        /\ result.tag = "Err" /\ result.kind = "Other"
        /\ pc \in {"drop", "main", "exited"}
        /\ idx = log[k].idx
        /\ log[k].op = "write_record" => idx < Len(rows)
        /\ ~Delimited =>
              LET passed == written \o out_buf
              IN  /\ log[k].len < Len(table)
                  /\ Len(passed) <= Len(table)
                  /\ \A q \in 1..Len(passed) : passed[q] = table[q]
                  /\ pc # "exited" => Len(written) = log[k].len
        /\ pc = "exited" =>
              \/ exit_code = 1 /\ stderr \in {<<Said("Error writing output")>>, <<>>}
              \/ exit_code = 101 /\ stderr \in AfterFailedEprintln("Error writing output")

\* a failed table write, the process ended with status 1 and the message,
\* and the flush at exit has delivered the rest of the table
C8_Witness ==
    /\ pc = "exited" /\ exit_code = 1
    /\ result = Err("io::Error", "Other")
    /\ args.format = "Table" /\ Len(rows) = 2
    /\ FailedOther # {}
    /\ sink = table /\ table = Utf8(RenderTable(rows))
    /\ stderr = <<Said("Error writing output")>>

\* C9: when the formatter has returned Ok, the header and every data record
\* have been passed on by standard output (and have reached its consumer
\* when standard output is open) and nothing is left in the buffers of the
\* writer and of standard output; and when the process has ended after a
\* failed formatter write, by the broken-pipe exit or by the fatal exit,
\* standard output was flushed after the failure: by the runtime as the
\* last operation, and before that, in the delimited modes, by the writer's
\* Drop; what a buffer still holds at the end is what such a flush failed
\* to write.
C9_FlushedOnEveryExit ==
    /\ (Succeeded /\ pc \in {"main", "exited"}) =>
          /\ wtr_buf = <<>>
          /\ out_buf = <<>>
          /\ pipe = "open" => sink = written
          /\ Len(Records) = 1 + Len(rows)
          /\ \A k \in 1..Len(rows) :
                Records[k + 1] = <<rows[k].metadata_type, rows[k].parent, rows[k].member>>
    /\ pc = "exited" =>
          /\ log # <<>>
          /\ log[Len(log)].op = "exit_flush"
          /\ result.tag = "Err" =>
                \E k \in 1..Len(log) :
                    /\ log[k].op \in FormatterOps /\ log[k].outcome # "Ok"
                    /\ log[Len(log)].op = "exit_flush" /\ k < Len(log)
                    /\ Delimited =>
                          \E j \in (k + 1)..(Len(log) - 1) :
                              /\ log[j].op = "drop"
                              /\ wtr_buf # <<>> => log[j].outcome = "Err"
                    /\ out_buf # <<>> => log[Len(log)].outcome = "Err"

\* the broken-pipe exit in a delimited mode, the reader of the pipe gone for
\* good: the writer was dropped and standard output flushed before the
\* process ended with status 0
C9_Witness ==
    /\ pc = "exited" /\ exit_code = 0
    /\ result = Err("io::Error", "BrokenPipe")
    /\ Delimited
    /\ pipe = "broken"
    /\ \E k \in 1..Len(log) : log[k].op = "drop"
    /\ log[Len(log)].op = "exit_flush"

====
